---- MODULE Spec2Model ----
(***************************************************************************)
(* phockup: classification and placement of media files into a date tree.  *)
(* File names are sequences of tokens (<<"a", ".jpg">>), date strings are  *)
(* sequences of one-character strings, trees are functions from paths to   *)
(* file contents.                                                          *)
(***************************************************************************)
EXTENDS Integers, Sequences, FiniteSets, TLC

\* ---------------------------------------------------------------- bounds
\* most files an input tree holds
MaxFiles == 3
\* most runs of main over the same input and output trees
MaxRuns == 2
\* most digits of a sub-second fragment
MaxFrac == 3

\* ------------------------------------------------------- character helpers
Digits == <<"0", "1", "2", "3", "4", "5", "6", "7", "8", "9">>

IsDigit(ch) == \E i \in 1..10 : Digits[i] = ch

DigitVal(ch) == (CHOOSE i \in 1..10 : Digits[i] = ch) - 1

AllDigits(s, from, to) == \A i \in from..to : IsDigit(s[i])

Num2(s, i) == 10 * DigitVal(s[i]) + DigitVal(s[i + 1])

Num4(s, i) == 100 * Num2(s, i) + Num2(s, i + 2)

Pad2(n) == Digits[((n \div 10) % 10) + 1] \o Digits[(n % 10) + 1]

Pad4(n) == Pad2(n \div 100) \o Pad2(n % 100)

RECURSIVE Join(_)
Join(chars) == IF chars = <<>> THEN "" ELSE Head(chars) \o Join(Tail(chars))

\* str.split(sep): the pieces of s between the occurrences of sep
RECURSIVE split(_, _)
split(s, sep) ==
    IF \A i \in 1..Len(s) : s[i] # sep
    THEN <<s>>
    ELSE LET i == CHOOSE k \in 1..Len(s) :
                      s[k] = sep /\ \A j \in 1..(k - 1) : s[j] # sep
         IN  <<SubSeq(s, 1, i - 1)>> \o split(SubSeq(s, i + 1, Len(s)), sep)

\* ------------------------------------------------------------ get_date
\* positions where [+-]\d{2}:\d{2} matches
TzAt(s, i) ==
    /\ i + 5 <= Len(s)
    /\ s[i] \in {"+", "-"}
    /\ IsDigit(s[i + 1]) /\ IsDigit(s[i + 2])
    /\ s[i + 3] = ":"
    /\ IsDigit(s[i + 4]) /\ IsDigit(s[i + 5])

\* re.search(r'(.*)([+-]\d{2}:\d{2})', date)
tz_search(s) == \E i \in 1..Len(s) : TzAt(s, i)

\* re.sub(search, r'\1', date): the greedy (.*) reaches the last offset,
\* which is dropped; what follows it stays
tz_sub(s) ==
    LET i == CHOOSE k \in 1..Len(s) :
                 TzAt(s, k) /\ \A j \in (k + 1)..Len(s) : ~TzAt(s, j)
    IN  SubSeq(s, 1, i - 1) \o SubSeq(s, i + 6, Len(s))

NoDateTime ==
    [ok |-> FALSE, year |-> 0, month |-> 0, day |-> 0,
     hour |-> 0, minute |-> 0, second |-> 0]

IsLeap(y) == (y % 4 = 0 /\ y % 100 # 0) \/ y % 400 = 0

DaysIn(y, m) ==
    IF m = 2 THEN (IF IsLeap(y) THEN 29 ELSE 28)
    ELSE IF m \in {4, 6, 9, 11} THEN 30 ELSE 31

\* datetime.strptime(date, "%Y<sep>%m<sep>%d %H:%M:%S") on two-digit fields;
\* a ValueError is the result NoDateTime
strptime(s, sep) ==
    IF /\ Len(s) = 19
       /\ AllDigits(s, 1, 4) /\ s[5] = sep
       /\ AllDigits(s, 6, 7) /\ s[8] = sep
       /\ AllDigits(s, 9, 10) /\ s[11] = " "
       /\ AllDigits(s, 12, 13) /\ s[14] = ":"
       /\ AllDigits(s, 15, 16) /\ s[17] = ":"
       /\ AllDigits(s, 18, 19)
       /\ Num4(s, 1) >= 1
       /\ Num2(s, 6) \in 1..12
       /\ Num2(s, 9) \in 1..DaysIn(Num4(s, 1), Num2(s, 6))
       /\ Num2(s, 12) \in 0..23
       /\ Num2(s, 15) \in 0..59
       /\ Num2(s, 18) \in 0..61
    THEN [ok |-> TRUE, year |-> Num4(s, 1), month |-> Num2(s, 6),
          day |-> Num2(s, 9), hour |-> Num2(s, 12), minute |-> Num2(s, 15),
          second |-> Num2(s, 18)]
    ELSE NoDateTime

\* the metadata keys probed, in order
date_keys(use_modification_date) ==
    <<"Create Date", "Date/Time Original", "Media created">>
        \o (IF use_modification_date
            THEN <<"File Modification Date/Time">> ELSE <<>>)

\* the branch of get_date taken when a metadata value was found
parse_datestr(datestr) ==
    LET parts      == split(datestr, ".")
        date0      == parts[1]
        subseconds == IF Len(parts) > 1 THEN parts[2] ELSE <<>>
        date       == IF tz_search(date0) THEN tz_sub(date0) ELSE date0
        first      == strptime(date, ":")
        parsed     == IF first.ok THEN first ELSE strptime(date, "-")
    IN  [found |-> TRUE, date |-> parsed, subseconds |-> subseconds]

\* the file-name branch of get_date: the pattern needs an embedded
\* YYYYMMDD[_-]?HHMMSS after a "_" or "-"; no name of InputPaths below holds
\* one, regex.search finds nothing and get_date returns None
NoneDate == [found |-> FALSE, date |-> NoDateTime, subseconds |-> <<>>]

filename_date(name) == NoneDate

get_date(name, exif_data, use_modification_date) ==
    LET keys    == date_keys(use_modification_date)
        present == {i \in 1..Len(keys) : keys[i] \in DOMAIN exif_data}
        datestr == IF present = {} THEN <<>>
                   ELSE exif_data[keys[CHOOSE i \in present :
                                           \A j \in present : i <= j]]
    IN  IF datestr # <<>> THEN parse_datestr(datestr)
        ELSE filename_date(name)

\* ------------------------------------------------------ names and paths
Exts == {".jpg", ".JPG", ".png", ".xmp"}

\* os.path.splitext on a token name: <<stem, ext>>
splitext(name) ==
    IF Len(name) > 1 /\ name[Len(name)] \in Exts
    THEN <<SubSeq(name, 1, Len(name) - 1), <<name[Len(name)]>>>>
    ELSE <<name, <<>>>>

\* str.lower, token by token
LowerTok(t) == IF t = ".JPG" THEN ".jpg" ELSE t

lower(name) == [i \in 1..Len(name) |-> LowerTok(name[i])]

endswith_xmp(name) == Len(name) >= 1 /\ name[Len(name)] = ".xmp"

Path(d, n) == [dir |-> d, name |-> n]

\* get_output_dir with the default dir_format %Y/%m/%d; its try block
\* raises on a missing date and the except branch answers "unknown"
get_output_dir(date) ==
    IF date.found /\ date.date.ok
    THEN Pad4(date.date.year) \o "/" \o Pad2(date.date.month)
             \o "/" \o Pad2(date.date.day)
    ELSE "unknown"

\* get_file_name: the stamp, the sub-seconds verbatim, the extension; the
\* except branch answers the base name
get_file_name(name, date) ==
    IF date.found /\ date.date.ok
    THEN <<Pad4(date.date.year) \o Pad2(date.date.month)
              \o Pad2(date.date.day) \o "-" \o Pad2(date.date.hour)
              \o Pad2(date.date.minute) \o Pad2(date.date.second)
              \o Join(date.subseconds)>> \o splitext(name)[2]
    ELSE name

\* ----------------------------------------------------- file contents
D_colon == <<"2", "0", "2", "1", ":", "0", "5", ":", "0", "4", " ",
             "1", "0", ":", "1", "1", ":", "1", "2">>

D_dash  == <<"2", "0", "2", "1", "-", "0", "5", "-", "0", "4", " ",
             "1", "0", ":", "1", "1", ":", "1", "2">>

D_mtime == <<"2", "0", "2", "1", ":", "0", "6", ":", "0", "7", " ",
             "0", "8", ":", "0", "9", ":", "1", "0",
             "+", "0", "2", ":", "0", "0">>

\* exif(file): what exiftool reports for a file of content c, as a mapping
\* from field name to value (a token or character sequence). I1 and I2 are
\* two different images taken at the same second, I3 a video of that second
\* dated by another field, T1 and T2 two text files, N0 a file for which
\* exiftool prints no MIME Type row.
exif(c) ==
    CASE c \in {"I1", "I2"} ->
           [k \in {"MIME Type", "Create Date", "File Modification Date/Time"}
              |-> CASE k = "MIME Type" -> <<"image", "/", "jpeg">>
                    [] k = "Create Date" -> D_colon
                    [] OTHER -> D_mtime]
      [] c = "I3" ->
           [k \in {"MIME Type", "Media created", "File Modification Date/Time"}
              |-> CASE k = "MIME Type" -> <<"video", "/", "mp4">>
                    [] k = "Media created" -> D_dash
                    [] OTHER -> D_mtime]
      [] c \in {"T1", "T2"} ->
           [k \in {"MIME Type", "File Modification Date/Time"}
              |-> CASE k = "MIME Type" -> <<"text", "/", "plain">>
                    [] OTHER -> D_mtime]
      [] OTHER ->
           [k \in {"", "File Modification Date/Time"}
              |-> CASE k = "" -> <<>>
                    [] OTHER -> D_mtime]

\* raised by exif_data['MIME Type'] when the row is missing
mime_KeyError(exif_data) ==
    DOMAIN exif_data # {} /\ "MIME Type" \notin DOMAIN exif_data

\* ^(image/.+|video/.+|application/vnd.adobe.photoshop)$
is_image_or_video(exif_data) ==
    /\ DOMAIN exif_data # {}
    /\ "MIME Type" \in DOMAIN exif_data
    /\ LET m == exif_data["MIME Type"]
       IN  \/ Len(m) = 3 /\ m[1] \in {"image", "video"} /\ m[2] = "/"
           \/ m = <<"application", "/", "vnd.adobe.photoshop">>

\* sha256_checksum of a file of content c: one digest per content
sha256(c) == "sha-" \o c

\* ------------------------------------------------------------- trees
NoPath == [dir |-> "", name |-> <<>>]

EmptyTree == [q \in {} |-> ""]

\* mutant: the existence check is lost
isfile_never(tree, p) == FALSE

isfile(tree, p) == p \in DOMAIN tree

Put(tree, p, c) ==
    [q \in DOMAIN tree \cup {p} |-> IF q = p THEN c ELSE tree[q]]

Remove(tree, p) == [q \in DOMAIN tree \ {p} |-> tree[q]]

\* mutant: the source is removed in copy mode too
transfer_always_moves(fs, src, dst, move_files) ==
    [inp |-> Remove(fs.inp, src), out |-> Put(fs.out, dst, fs.inp[src])]

\* shutil.move(src, dst) or shutil.copy2(src, dst) from the input tree to
\* the output tree; both replace a file already at dst
transfer(fs, src, dst, move_files) ==
    [inp |-> IF move_files THEN Remove(fs.inp, src) ELSE fs.inp,
     out |-> Put(fs.out, dst, fs.inp[src])]

\* "%s-%d%s" % (target_split[0], suffix, target_split[1]); suffix 1 is the
\* plain target_file_path
suffixed(name, suffix) ==
    IF suffix = 1 THEN name
    ELSE splitext(name)[1] \o <<"-" \o ToString(suffix)>> \o splitext(name)[2]

\* mutant: an existing file is never compared, the next suffix is taken
RECURSIVE probe_no_digest(_, _, _, _, _)
probe_no_digest(out, c, dir, base, suffix) ==
    IF Path(dir, suffixed(base, suffix)) \in DOMAIN out
    THEN probe_no_digest(out, c, dir, base, suffix + 1)
    ELSE [duplicate |-> FALSE, suffix |-> suffix]

\* mutant: the suffix is incremented twice per collision
RECURSIVE probe_skip(_, _, _, _, _)
probe_skip(out, c, dir, base, suffix) ==
    IF Path(dir, suffixed(base, suffix)) \in DOMAIN out
    THEN IF sha256(c) = sha256(out[Path(dir, suffixed(base, suffix))])
         THEN [duplicate |-> TRUE, suffix |-> suffix]
         ELSE probe_skip(out, c, dir, base, suffix + 2)
    ELSE [duplicate |-> FALSE, suffix |-> suffix]

\* the while loop of handle_file: the first suffix whose path is free, or
\* holds a file of the source's digest
RECURSIVE probe(_, _, _, _, _)
probe(out, c, dir, base, suffix) ==
    LET target_file == Path(dir, suffixed(base, suffix))
    IN  IF isfile(out, target_file)
        THEN IF sha256(c) = sha256(out[target_file])
             THEN [duplicate |-> TRUE, suffix |-> suffix]
             ELSE probe(out, c, dir, base, suffix + 1)
        ELSE [duplicate |-> FALSE, suffix |-> suffix]

handle_file_xmp(fs, source_file, photo_name, suffix, exif_output_dir, move_files) ==
    LET xmp_original_with_ext ==
            Path(source_file.dir, source_file.name \o <<".xmp">>)
        xmp_original_without_ext ==
            Path(source_file.dir, splitext(source_file.name)[1] \o <<".xmp">>)
        sfx == IF suffix > 1 THEN <<"-" \o ToString(suffix)>> ELSE <<>>
        xmp_original ==
            IF isfile(fs.inp, xmp_original_with_ext)
            THEN xmp_original_with_ext
            ELSE IF isfile(fs.inp, xmp_original_without_ext)
                 THEN xmp_original_without_ext
                 ELSE NoPath
        xmp_target ==
            IF isfile(fs.inp, xmp_original_with_ext)
            THEN photo_name \o sfx \o <<".xmp">>
            ELSE splitext(photo_name)[1] \o sfx \o <<".xmp">>
        xmp_path == Path(exif_output_dir, xmp_target)
    IN  IF xmp_original = NoPath
        THEN [fs |-> fs, from |-> NoPath, to |-> NoPath]
        ELSE [fs |-> transfer(fs, xmp_original, xmp_path, move_files),
              from |-> xmp_original, to |-> xmp_path]

\* what a handler answers: the status (or that it raised), the trees it
\* leaves, and where it looked and wrote
Result(status, raised, fs, dir, base, target, suffix, xfrom, xto) ==
    [status |-> status, raised |-> raised, fs |-> fs, dir |-> dir,
     base |-> base, target |-> target, suffix |-> suffix,
     xmp_from |-> xfrom, xmp_to |-> xto]

handle_file(fs, source_file, move_files) ==
    LET name      == source_file.name
        c         == fs.inp[source_file]
        exif_data == exif(c)
        media     == is_image_or_video(exif_data)
        date      == IF media THEN get_date(name, exif_data, FALSE)
                     ELSE NoneDate
        output_dir == get_output_dir(date)
        target_file_name ==
            IF media THEN lower(get_file_name(name, date)) ELSE name
        p           == probe(fs.out, c, output_dir, target_file_name, 1)
        target_file == Path(output_dir, suffixed(target_file_name, p.suffix))
        placed      == transfer(fs, source_file, target_file, move_files)
        x           == handle_file_xmp(placed, source_file, target_file_name,
                                       p.suffix, output_dir, move_files)
    IN  IF endswith_xmp(name)
        THEN Result("other", FALSE, fs, "", <<>>, NoPath, 1, NoPath, NoPath)
        ELSE IF mime_KeyError(exif_data)
        THEN Result("other", TRUE, fs, "", <<>>, NoPath, 1, NoPath, NoPath)
        ELSE IF p.duplicate
        THEN Result("duplicate", FALSE, fs, output_dir, target_file_name,
                    target_file, p.suffix, NoPath, NoPath)
        ELSE Result(IF move_files THEN "moved" ELSE "copied", FALSE, x.fs,
                    output_dir, target_file_name, target_file, p.suffix,
                    x.from, x.to)

handle_file2(fs, source_file, move_files) ==
    LET name          == source_file.name
        c             == fs.inp[source_file]
        exif_data     == exif(c)
        source_sha256 == sha256(c)
        media         == is_image_or_video(exif_data)
        date          == IF media THEN get_date(name, exif_data, TRUE)
                         ELSE NoneDate
        output_dir    == get_output_dir(date)
        target_file_name ==
            IF media THEN <<source_sha256>> \o splitext(name)[2] ELSE name
        target_file   == Path(output_dir, target_file_name)
    IN  IF mime_KeyError(exif_data)
        THEN Result("other", TRUE, fs, "", <<>>, NoPath, 1, NoPath, NoPath)
        ELSE IF isfile(fs.out, target_file)
        THEN Result("duplicate", FALSE, fs, output_dir, target_file_name,
                    target_file, 1, NoPath, NoPath)
        ELSE Result(IF move_files THEN "moved" ELSE "copied", FALSE,
                    transfer(fs, source_file, target_file, move_files),
                    output_dir, target_file_name, target_file, 1,
                    NoPath, NoPath)

\* ---------------------------------------------------------- the inputs
\* the input directory d1 and its subdirectory d2
PrimaryPaths ==
    {Path("d1", <<"a", ".jpg">>), Path("d1", <<"a", ".png">>),
     Path("d2", <<"a", ".jpg">>), Path("d2", <<"b", ".JPG">>)}

SidecarPaths ==
    {Path("d1", <<"a", ".xmp">>), Path("d2", <<"a", ".jpg", ".xmp">>),
     Path("d2", <<"a", ".xmp">>)}

ignored_files == {<<".DS_Store">>, <<"Thumbs.db">>}

IgnoredPaths == {Path("d1", <<".DS_Store">>)}

InputPaths == PrimaryPaths \cup SidecarPaths \cup IgnoredPaths

\* the contents a file at path p is drawn from
ContentsAt(p) ==
    CASE p = Path("d1", <<"a", ".jpg">>) -> {"I1", "T1", "N0"}
      [] p = Path("d1", <<"a", ".png">>) -> {"I1", "I2"}
      [] p = Path("d2", <<"a", ".jpg">>) -> {"I1", "I2"}
      [] p = Path("d2", <<"b", ".JPG">>) -> {"I2", "I3"}
      [] p = Path("d2", <<"a", ".xmp">>) -> {"T2"}
      [] OTHER -> {"T1"}

InputTrees ==
    UNION {{t \in [S -> {"I1", "I2", "I3", "T1", "T2", "N0"}] :
               \A p \in S : t[p] \in ContentsAt(p)} :
           S \in {X \in SUBSET InputPaths : Cardinality(X) <= MaxFiles}}

\* the metadata date values get_date is applied to
D_bad == <<"2", "0", "2", "1", ":", "1", "3", ":", "0", "4", " ",
           "1", "0", ":", "1", "1", ":", "1", "2">>

DateParts == {D_colon, D_dash, D_bad}

FracDigits == {"0", "5"}

Fracs == UNION {[1..n -> FracDigits] : n \in 1..MaxFrac}

Offsets == {<<"+", "0", "2", ":", "0", "0">>, <<"-", "0", "5", ":", "3", "0">>}

DateInputs ==
    [date : DateParts, frac : Fracs \cup {<<>>}, tz : Offsets \cup {<<>>}]

\* YYYY:MM:DD HH:MM:SS[.f][+-HH:MM]
DateStr(in) ==
    in.date \o (IF in.frac = <<>> THEN <<>> ELSE <<".">> \o in.frac) \o in.tz

\* ------------------------------------------------------------- the state
VARIABLES
    move_files,   \* main's -m option
    sha_rename,   \* main's -s option
    inp,          \* the input tree: path -> content
    out,          \* the output tree: path -> content
    walk,         \* the files os.walk lists in this run
    log,          \* one entry per file the loop has taken, in order, with
                  \* the trees before and after it
    count,        \* main's count dict
    pc,           \* "loop", "done", "exit" (sys.exit(0)), "crash", "off"
    summary,      \* what print_summary has printed
    intr,         \* a KeyboardInterrupt reached main's handler
    run,          \* the number of this run
    first,        \* the output tree and log at the end of the first run
    dpc,          \* get_date check: "off", "input", "parsed", "named"
    din,          \* the date value handed to get_date
    dres,         \* what get_date returned
    fname         \* what get_file_name returned

vars == <<move_files, sha_rename, inp, out, walk, log, count, pc, summary,
          intr, run, first, dpc, din, dres, fname>>

mainvars == <<move_files, sha_rename, inp, out, walk, log, count, pc, summary,
              intr, run, first>>

datevars == <<dpc, din, dres, fname>>

Statuses == {"copied", "moved", "duplicate", "error", "other"}

ZeroCount == [s \in Statuses |-> 0]

NoDateInput == [date |-> <<>>, frac |-> <<>>, tz |-> <<>>]

Init ==
    /\ move_files \in BOOLEAN
    /\ sha_rename \in BOOLEAN
    /\ inp \in InputTrees
    /\ out = EmptyTree
    /\ walk = DOMAIN inp
    /\ log = <<>>
    /\ count = ZeroCount
    /\ pc = "loop"
    /\ summary = "none"
    /\ intr = FALSE
    /\ run = 1
    /\ first = [out |-> EmptyTree, log |-> <<>>]
    /\ dpc = "off"
    /\ din = NoDateInput
    /\ dres = NoneDate
    /\ fname = <<>>

\* ---------------------------------------------------------------- main
Visited == {log[i].file : i \in 1..Len(log)}

\* os.walk is top-down: the files of d1, then those of its subdirectory d2
NextInWalk(f) ==
    /\ f \in walk \ Visited
    /\ f.dir = "d2" => \A g \in walk : g.dir = "d1" => g \in Visited

\* the body of the try block for one file (lines 94-99)
handle(fs, f) ==
    IF sha_rename THEN handle_file2(fs, f, move_files)
    ELSE handle_file(fs, f, move_files)

Entry(f, status, r) ==
    [file |-> f, content |-> IF f \in DOMAIN inp THEN inp[f] ELSE "",
     status |-> status, dir |-> r.dir, base |-> r.base, target |-> r.target,
     suffix |-> r.suffix, xmp_from |-> r.xmp_from, xmp_to |-> r.xmp_to,
     before |-> [inp |-> inp, out |-> out], after |-> r.fs]

Skipped(fs) == Result("none", FALSE, fs, "", <<>>, NoPath, 1, NoPath, NoPath)

\* mutant: an ignored file is counted as other
counted_ignored_as_other(f, r) ==
    IF f.name \in ignored_files THEN "other"
    ELSE IF r.raised THEN "error" ELSE r.status

\* the counter a file's pass through the loop body increments: none for an
\* ignored file (continue), error when the handler raised, else its status
counted(f, r) ==
    IF f.name \in ignored_files THEN "none"
    ELSE IF r.raised THEN "error" ELSE r.status

\* one iteration of the loop of main (lines 92-110)
ProcessFile(f) ==
    /\ pc = "loop"
    /\ NextInWalk(f)
    /\ \E r \in {IF f.name \in ignored_files
                 THEN Skipped([inp |-> inp, out |-> out])
                 ELSE handle([inp |-> inp, out |-> out], f)} :
         /\ inp' = r.fs.inp
         /\ out' = r.fs.out
         /\ log' = Append(log, Entry(f, counted(f, r), r))
         /\ count' = IF counted(f, r) = "none" THEN count
                     ELSE [count EXCEPT ![counted(f, r)] = @ + 1]
    /\ UNCHANGED <<move_files, sha_rename, walk, pc, summary, intr, run,
                   first, datevars>>

Sum(c) == c["copied"] + c["moved"] + c["duplicate"] + c["error"] + c["other"]

\* print_summary: the total line, then one line per counter, each dividing
\* by the total
print_summary(c) == IF Sum(c) = 0 THEN "total line, ZeroDivisionError"
                    ELSE "complete"

\* a KeyboardInterrupt reaches the handler of line 102 while file f is
\* processed, before the handler touched the trees or after it did and
\* before the count
Interrupt(f, placed) ==
    /\ pc = "loop"
    /\ NextInWalk(f)
    /\ f.name \notin ignored_files
    /\ \E r \in {handle([inp |-> inp, out |-> out], f)} :
         /\ inp' = IF placed /\ ~r.raised THEN r.fs.inp ELSE inp
         /\ out' = IF placed /\ ~r.raised THEN r.fs.out ELSE out
    /\ intr' = TRUE
    /\ summary' = print_summary(count)
    /\ pc' = IF print_summary(count) = "complete" THEN "exit" ELSE "crash"
    /\ UNCHANGED <<move_files, sha_rename, walk, log, count, run, first,
                   datevars>>

\* the loop is over: bar.done(), the error list, print_summary (111-116)
Finish ==
    /\ pc = "loop"
    /\ walk \subseteq Visited
    /\ summary' = print_summary(count)
    /\ pc' = IF print_summary(count) = "complete" THEN "done" ELSE "crash"
    /\ first' = IF run = 1 THEN [out |-> out, log |-> log] ELSE first
    /\ UNCHANGED <<move_files, sha_rename, inp, out, walk, log, count, intr,
                   run, datevars>>

\* the tool is started again with the same arguments
Restart ==
    /\ pc = "done"
    /\ run < MaxRuns
    /\ run' = run + 1
    /\ walk' = DOMAIN inp
    /\ log' = <<>>
    /\ count' = ZeroCount
    /\ pc' = "loop"
    /\ summary' = "none"
    /\ UNCHANGED <<move_files, sha_rename, inp, out, intr, first, datevars>>

Next ==
    \/ \E f \in InputPaths : ProcessFile(f)
    \/ \E f \in InputPaths, placed \in BOOLEAN : Interrupt(f, placed)
    \/ Finish
    \/ Restart

Spec == Init /\ [][Next]_vars

\* ------------------------------------------- get_date on its own inputs
InitDate ==
    /\ move_files = FALSE
    /\ sha_rename = FALSE
    /\ inp = EmptyTree
    /\ out = EmptyTree
    /\ walk = {}
    /\ log = <<>>
    /\ count = ZeroCount
    /\ pc = "off"
    /\ summary = "none"
    /\ intr = FALSE
    /\ run = 1
    /\ first = [out |-> EmptyTree, log |-> <<>>]
    /\ dpc = "input"
    /\ din \in DateInputs
    /\ dres = NoneDate
    /\ fname = <<>>

\* get_date on a file whose Create Date is the input
ApplyGetDate ==
    /\ dpc = "input"
    /\ dres' = get_date(<<"a", ".JPG">>,
                        [k \in {"Create Date"} |-> DateStr(din)], FALSE)
    /\ dpc' = "parsed"
    /\ UNCHANGED <<mainvars, din, fname>>

\* handle_file's target_file_name for that file
ApplyGetFileName ==
    /\ dpc = "parsed"
    /\ fname' = lower(get_file_name(<<"a", ".JPG">>, dres))
    /\ dpc' = "named"
    /\ UNCHANGED <<mainvars, din, dres>>

NextDate == ApplyGetDate \/ ApplyGetFileName

SpecDate == InitDate /\ [][NextDate]_vars

\* ------------------------------------------------------------ the claims
Placed(e) == e.status \in {"copied", "moved"}

\* the handler computed a target for the file
Resolved(e) == e.status \in {"copied", "moved", "duplicate"}

\* base.ext for i = 1, base-i.ext after
NthName(base, i) ==
    IF i = 1 THEN base
    ELSE SubSeq(base, 1, Len(base) - 1) \o <<"-" \o ToString(i)>>
             \o <<base[Len(base)]>>

\* the files of directory dir named base.ext or base-i.ext
Chain(tree, dir, base) ==
    {p \in DOMAIN tree :
        /\ p.dir = dir
        /\ \E i \in 1..(Cardinality(DOMAIN tree) + 1) : p.name = NthName(base, i)}

\* C1: in both modes, an outcome `duplicate` means the file at the probed
\* target path has the digest of the source, and the output tree is left as
\* it was.
C1_DuplicateOnlyOnEqualDigest ==
    \A i \in 1..Len(log) :
        log[i].status = "duplicate" =>
            /\ isfile(log[i].before.out, log[i].target)
            /\ sha256(log[i].before.out[log[i].target]) = sha256(log[i].content)
            /\ log[i].after.out = log[i].before.out

\* two files of the same content and the same target, one after the other
C2_Pair(i) ==
    /\ ~sha_rename
    /\ i + 1 <= Len(log)
    /\ Resolved(log[i]) /\ Resolved(log[i + 1])
    /\ log[i].dir = log[i + 1].dir /\ log[i].base = log[i + 1].base
    /\ log[i].content = log[i + 1].content

C2_Outcome(i) ==
    LET e == log[i]
        g == log[i + 1]
    IN  /\ Placed(e)
        /\ g.status = "duplicate"
        /\ Chain(g.after.out, e.dir, e.base) = {Path(e.dir, e.base)}
        /\ e.target = Path(e.dir, e.base)
        /\ g.after.out[Path(e.dir, e.base)] = e.content

\* C2 as stated: in timestamp mode, of two files of identical content and
\* the same target processed one after the other, the first is moved/copied
\* and the second is duplicate; afterwards one file exists for the base name
\* and holds what the first wrote.
C2_Original == \A i \in 1..Len(log) : C2_Pair(i) => C2_Outcome(i)

\* C2 amended: the same, when no file of that base name (suffixed or not) is
\* in the target directory before the first of the two is processed.
C2_Amended ==
    \A i \in 1..Len(log) :
        (C2_Pair(i) /\ Chain(log[i].before.out, log[i].dir, log[i].base) = {})
            => C2_Outcome(i)

C2_Witness ==
    \E i \in 1..Len(log) :
        /\ C2_Pair(i)
        /\ Chain(log[i].before.out, log[i].dir, log[i].base) = {}
        /\ log[i + 1].status = "duplicate"

\* the entries a..b that resolve to the target of entry a
C3_Group(a, b) ==
    {i \in a..b : /\ Resolved(log[i])
                  /\ log[i].dir = log[a].dir
                  /\ log[i].base = log[a].base}

\* entries a..b are k >= 2 files of pairwise different content resolving to
\* one target, processed into a directory that was empty, with nothing else
\* placed in between
C3_Case(a, b) ==
    /\ ~sha_rename
    /\ a < b /\ b <= Len(log)
    /\ Resolved(log[a]) /\ Resolved(log[b])
    /\ log[b].dir = log[a].dir /\ log[b].base = log[a].base
    /\ \A p \in DOMAIN log[a].before.out : p.dir # log[a].dir
    /\ \A i \in a..b : i \notin C3_Group(a, b) => ~Resolved(log[i])
    /\ \A i, j \in C3_Group(a, b) : i # j => log[i].content # log[j].content

\* C3: in timestamp mode, k >= 2 files of pairwise different content with
\* the same target base.ext, processed in sequence into an empty directory,
\* are all moved/copied, the first as base.ext and the i-th as base-i.ext,
\* and each keeps its name and content.
C3_SuffixesInOrder ==
    \A a, b \in 1..Len(log) :
        C3_Case(a, b) =>
            \A i \in C3_Group(a, b) :
                /\ Placed(log[i])
                /\ log[i].target =
                       Path(log[a].dir,
                            NthName(log[a].base,
                                    Cardinality({j \in C3_Group(a, b) : j <= i})))
                /\ isfile(log[b].after.out, log[i].target)
                /\ log[b].after.out[log[i].target] = log[i].content

C3_Witness ==
    \E a, b \in 1..Len(log) :
        /\ C3_Case(a, b)
        /\ Cardinality(C3_Group(a, b)) = 3
        /\ log[b].target = Path(log[a].dir, NthName(log[a].base, 3))

\* the run reached the end of main (line 116)
AtEnd == pc \in {"done", "crash"} /\ ~intr

Counted(f) == {i \in 1..Len(log) : log[i].file = f /\ log[i].status \in Statuses}

\* C4 as stated: at the end of main every input file has exactly one
\* outcome and the counters add up to the number of input files.
C4_Original ==
    AtEnd =>
        /\ \A f \in walk : Cardinality(Counted(f)) = 1
        /\ Sum(count) = Cardinality(walk)

\* C4 amended: at the end of main every input file whose name is not in
\* ignored_files (.DS_Store, Thumbs.db) has exactly one outcome, an ignored
\* file has none, each counter is the number of files of that outcome, and
\* the counters add up to the number of files that are not ignored.
C4_Amended ==
    AtEnd =>
        /\ \A f \in walk :
               Cardinality(Counted(f)) =
                   IF f.name \in ignored_files THEN 0 ELSE 1
        /\ \A s \in Statuses :
               count[s] = Cardinality({i \in 1..Len(log) : log[i].status = s})
        /\ Sum(count) = Cardinality({f \in walk : f.name \notin ignored_files})

C4_Witness ==
    /\ AtEnd
    /\ Cardinality(walk) = 3
    /\ \E f \in walk : f.name \in ignored_files
    /\ count["error"] = 1
    /\ count["copied"] = 1

\* the two places handle_file_xmp looks for the sidecar of file f
Sidecars(f) ==
    {Path(f.dir, f.name \o <<".xmp">>),
     Path(f.dir, splitext(f.name)[1] \o <<".xmp">>)}

\* C5: in copy mode the source and its sidecar are where they were, with
\* the content they had, after any file is processed; in move mode an
\* outcome moved leaves no file at the source path and the content at the
\* target path.
C5_SourceKeptOrMoved ==
    \A i \in 1..Len(log) :
        LET e == log[i]
        IN  /\ ~move_files =>
                \A p \in ({e.file} \cup Sidecars(e.file)) \cap DOMAIN e.before.inp :
                    /\ isfile(e.after.inp, p)
                    /\ e.after.inp[p] = e.before.inp[p]
            /\ (move_files /\ e.status = "moved") =>
                /\ ~isfile(e.after.inp, e.file)
                /\ isfile(e.after.out, e.target)
                /\ e.after.out[e.target] = e.content

C5_Witness ==
    \E i \in 1..Len(log) :
        /\ ~move_files
        /\ log[i].status = "copied"
        /\ log[i].xmp_to # NoPath
        /\ isfile(log[i].after.out, log[i].xmp_to)

\* the outcome file f had in the first run
FirstStatus(f) ==
    LET i == CHOOSE k \in 1..Len(first.log) : first.log[k].file = f
    IN  first.log[i].status

\* C6 as stated: a second copy-mode run over the same trees gives only
\* duplicate outcomes and leaves the output tree as the first run left it.
C6_Original ==
    (~move_files /\ run >= 2) =>
        /\ out = first.out
        /\ \A i \in 1..Len(log) : log[i].status \in {"duplicate", "none"}

\* C6 amended: in a second copy-mode run every file the first run copied or
\* found duplicate is duplicate, every other file has the outcome it had in
\* the first run (a .xmp file is other, a file whose processing raised is
\* error, an ignored file has none), and the output tree is as the first
\* run left it.
C6_Amended ==
    (~move_files /\ run >= 2) =>
        /\ out = first.out
        /\ \A i \in 1..Len(log) :
               log[i].status =
                   IF FirstStatus(log[i].file) \in {"copied", "duplicate"}
                   THEN "duplicate"
                   ELSE FirstStatus(log[i].file)

C6_Witness ==
    /\ ~move_files
    /\ run = 2
    /\ pc = "done"
    /\ \E i \in 1..Len(log) :
           log[i].status = "duplicate" /\ FirstStatus(log[i].file) = "copied"
    /\ \E i \in 1..Len(log) : log[i].status = "other"

\* C7: in timestamp mode, a primary placed with index n > 1 whose sidecar is
\* at <original path>.xmp has the sidecar relocated under the placed
\* primary's file name followed by .xmp (photo-2.jpg.xmp).
C7_SidecarFollowsPlacedName ==
    \A i \in 1..Len(log) :
        LET e == log[i]
        IN  (/\ ~sha_rename
             /\ Placed(e)
             /\ e.suffix > 1
             /\ isfile(e.before.inp, Path(e.file.dir, e.file.name \o <<".xmp">>)))
            => /\ e.xmp_to = Path(e.dir, e.target.name \o <<".xmp">>)
               /\ isfile(e.after.out, e.xmp_to)

\* C8: for a value YYYY:MM:DD HH:MM:SS.f followed by an offset, get_date
\* returns the date-time and the sub-seconds f, without the offset.
C8_OffsetStripped ==
    (/\ dpc # "input"
     /\ din.date = D_colon
     /\ din.frac # <<>>
     /\ din.tz # <<>>)
    => /\ dres.date = [ok |-> TRUE, year |-> 2021, month |-> 5, day |-> 4,
                       hour |-> 10, minute |-> 11, second |-> 12]
       /\ dres.subseconds = din.frac

\* C9: after an interrupt during the loop, no further file is processed
\* (main has exited) and the complete summary has been printed.
C9_SummaryOnInterrupt ==
    intr => (pc = "exit" /\ summary = "complete")

\* C10: in timestamp mode no file is at the path a sidecar is copied or
\* moved to, and every file of the output tree keeps its content.
C10_SidecarNeverReplaces ==
    \A i \in 1..Len(log) :
        LET e == log[i]
        IN  (~sha_rename /\ e.xmp_to # NoPath) =>
                /\ ~isfile(e.before.out, e.xmp_to)
                /\ \A p \in DOMAIN e.before.out :
                       e.after.out[p] = e.before.out[p]

====
